---- MODULE Spec2Model ----
(***************************************************************************)
(* Model of the stdio transport of the MCP client (client/stdio_transport  *)
(* .go) together with the handshake of TransportMCPClient.Initialize       *)
(* (client/transport_client.go).                                           *)
(*                                                                         *)
(* Processes: the caller goroutines (each runs Initialize or a typed       *)
(* request, that is one SendRequest), the readResponses goroutine, the     *)
(* goroutine that calls Close, the notification handler goroutines, and    *)
(* the child process (the server) on the other end of the pipes.  Every    *)
(* access to shared state of the transport is one step.                    *)
(***************************************************************************)
EXTENDS Integers, Sequences, FiniteSets, TLC

\* ---------------------------------------------------------------- bounds
MaxRequests == 3     \* request ids allocated in one behaviour
MaxNotifs == 2       \* notification frames the child emits
MaxJunk == 1         \* duplicate, malformed or wrong-version frames the child emits
MaxObservers == 2    \* handlers registered with OnNotification
MaxCloses == 2       \* calls of Close
MaxSent == 2         \* direct calls of SendNotification

Callers == {"c1", "c2"}
IDs == 1..MaxRequests
Methods == {"initialize", "tools/call"}
NotifyMethods == {"notifications/initialized", "notifications/cancelled"}

NoChan == 0
\* stdio_transport.go:124, make(chan RPCResponse, 1)
ChanCapUnbuffered == 1 - 1
ChanCap == 1
Nil == "nil"
\* the absent result and the absent error object of a frame (nil pointers)
NoResult == [method |-> Nil, id |-> 0]
NoError == [code |-> 0, message |-> Nil]

\* ------------------------------------------------------- pure definitions

\* stdio_transport.go:109, the gate of SendRequest
NotInitializedRejectsOpen(init, method) == FALSE
NotInitializedRejects(init, method) == ~init /\ method # "initialize"

\* stdio_transport.go:113, requestID.Add(1)
NextRequestIDStale(r) == IF r = 0 THEN 1 ELSE r
NextRequestID(r) == r + 1

\* stdio_transport.go:126, t.responses[id] = responseChan
InsertEntry(resps, id, ch) ==
    [k \in (DOMAIN resps) \cup {id} |-> IF k = id THEN ch ELSE resps[k]]

\* stdio_transport.go:142 and :265, delete(t.responses, id)
DeleteEntryKeep(resps, id) == resps
DeleteEntryAll(resps, id) == << >>
DeleteEntryLowest(resps, id) ==
    [k \in {j \in DOMAIN resps : \E i \in DOMAIN resps : i < j} |-> resps[k]]
DeleteEntry(resps, id) == [k \in (DOMAIN resps) \ {id} |-> resps[k]]

\* stdio_transport.go:251, ch, ok := t.responses[*baseMessage.ID]
LookupChannelAny(resps, id) ==
    IF DOMAIN resps = {} THEN NoChan
    ELSE resps[CHOOSE k \in DOMAIN resps : \A j \in DOMAIN resps : k <= j]
LookupChannelStale(resps, id) == id
LookupChannel(resps, id) == IF id \in DOMAIN resps THEN resps[id] ELSE NoChan

\* stdio_transport.go:255-263, the RPCResponse built from a response frame:
\* only the message of the error object is kept
MakeResponse(frame) ==
    IF frame.error # NoError
    THEN [Error |-> frame.error.message, Response |-> NoResult]
    ELSE [Error |-> Nil, Response |-> frame.result]

\* stdio_transport.go:243, the handlers a notification is handed to
HandlersToInvokeFirst(notifs) == IF notifs = <<>> THEN <<>> ELSE <<Head(notifs)>>
HandlersToInvoke(notifs) == notifs

\* stdio_transport.go:146-149, what SendRequest returns for a received response
OutcomeOf(response) ==
    IF response.Error # Nil
    THEN [kind |-> "error", message |-> response.Error, result |-> NoResult]
    ELSE [kind |-> "result", message |-> Nil, result |-> response.Response]

\* the frames written to the child
RequestFrame(id, method) == [type |-> "req", id |-> id, method |-> method]
NotificationFrame(method) == [type |-> "notif", id |-> 0, method |-> method]

\* a part of a frame on its way to the child: Write hands a frame to the pipe in
\* as many system calls as the pipe takes, here two
Chunk(c, frame, part) == [by |-> c, frame |-> frame, part |-> part]

\* what is recorded of the frames written to the child's input so far: how many
\* notifications, the method of the first request frame, and whether a request
\* other than initialize was written before any notification; wire is the
\* stream chunk by chunk, kept where the inside of Write is looked at, and lock
\* the goroutine that holds the write lock of the descriptor
NothingWritten == [notes |-> 0, first |-> Nil, early |-> FALSE, wire |-> << >>, lock |-> Nil]
Written(log, frame) ==
    IF frame.type = "req"
    THEN [log EXCEPT !.first = IF log.first = Nil THEN frame.method ELSE @,
                     !.early = @ \/ (frame.method # "initialize" /\ log.notes = 0)]
    ELSE [log EXCEPT !.notes = @ + 1]

\* what the child answers to the request frame req
ServerResult(req) == [method |-> req.method, id |-> req.id]
ServerError == [code |-> -32601, message |-> "method not found"]
\* the result of a response the child was not asked for
Unsolicited(id) == [method |-> "unsolicited", id |-> id]

\* a line of the child's output: kind "garbage" is not JSON; id 0 is "no id";
\* seq numbers the frames without id in the order the child wrote them
ResponseLine(v, id, result, error) ==
    [kind |-> "json", jsonrpc |-> v, id |-> id, result |-> result, error |-> error, seq |-> 0]
NotificationLine(v, k) ==
    [kind |-> "json", jsonrpc |-> v, id |-> 0, result |-> NoResult, error |-> NoError,
     seq |-> k]
GarbageLine ==
    [kind |-> "garbage", jsonrpc |-> Nil, id |-> 0, result |-> NoResult, error |-> NoError,
     seq |-> 0]

\* stdio_transport.go:232, json.Unmarshal into baseMessage (the jsonrpc field
\* is decoded and never looked at)
ParsesNothing(line) == FALSE
Parses(line) == line.kind = "json"

\* stdio_transport.go:237, baseMessage.ID == nil
IsNotification(line) == line.id = 0

\* ------------------------------------------------------------------ state
VARIABLES
    requestID,      \* StdioTransport.requestID
    responses,      \* StdioTransport.responses: id -> channel
    chan,           \* the buffer of the channel made for each id (capacity 1)
    initialized,    \* StdioTransport.initialized
    done,           \* StdioTransport.done is closed
    stdinClosed,    \* StdioTransport.stdin is closed
    waited,         \* cmd.Wait has returned (it closes the parent's pipe ends)
    panicked,       \* the process died of a run-time panic
    notifications,  \* StdioTransport.notifications
    stdin,          \* the record of the frames written to the child's input
    stdout,         \* the lines the child wrote that the read loop has not read
    child,          \* the child process
    rl,             \* the readResponses goroutine (diag: the diagnostics it printed)
    cl,             \* the caller goroutines
    closer,         \* the goroutine that calls Close
    spawned,        \* handler goroutines started by "go handler(n)", not yet running
    invoked,        \* per handler, the notifications it began to run with, in order
    dispatchedAt    \* per notification, the number of handlers registered when
                    \* the read loop dispatched it (-1: not dispatched)

vars == <<requestID, responses, chan, initialized, done, stdinClosed, waited, panicked,
          notifications, stdin, stdout, child, rl, cl, closer, spawned, invoked,
          dispatchedAt>>

transportVars == <<requestID, responses, chan, initialized, done, stdinClosed, waited,
                   panicked, notifications>>
handlerVars == <<spawned, invoked, dispatchedAt>>

NoOutcome == [kind |-> "none", message |-> Nil, result |-> NoResult]
Failure(kind) == [kind |-> kind, message |-> Nil, result |-> NoResult]
NoLine ==
    [kind |-> "none", jsonrpc |-> Nil, id |-> 0, result |-> NoResult, error |-> NoError,
     seq |-> 0]

\* a caller goroutine between two calls; wrote: the call has written its
\* request frame to the child
Idle == [pc |-> "idle", method |-> Nil, id |-> 0, out |-> NoOutcome, wrote |-> FALSE]

\* the session has ended: Close was called or the read loop has returned
SessionEnded == done \/ rl.pc = "exited"

\* stdio_transport.go:64-104, the transport as NewStdioTransport returns it
Init ==
    /\ requestID = 0
    /\ responses = << >>
    /\ chan = [i \in IDs |-> << >>]
    /\ initialized = FALSE
    /\ done = FALSE
    /\ stdinClosed = FALSE
    /\ waited = FALSE
    /\ panicked = FALSE
    /\ notifications = << >>
    /\ stdin = NothingWritten
    /\ stdout = << >>
    /\ child = [state |-> "running", inbox |-> {}, notifs |-> 0, junk |-> 0]
    /\ rl = [pc |-> "select", line |-> NoLine, ch |-> NoChan, diag |-> {}]
    /\ cl = [c \in Callers |-> Idle]
    /\ closer = [pc |-> "idle", calls |-> 0, status |-> << >>]
    /\ spawned = [p \in (1..MaxObservers) \X (1..MaxNotifs) |-> 0]
    /\ invoked = [h \in 1..MaxObservers |-> << >>]
    /\ dispatchedAt = [k \in 1..MaxNotifs |-> -1]

\* a channel no goroutine and no map entry refers to any more is garbage: its
\* buffer is dropped.  Collect(ch, resps, loop, callers) is ch without the
\* buffers of such channels
Referenced(id, resps, loop, callers) ==
    \/ \E k \in DOMAIN resps : resps[k] = id
    \/ loop.ch = id
    \/ \E c \in Callers : callers[c].id = id /\ callers[c].pc \in {"write", "writing", "await"}
Collect(ch, resps, loop, callers) ==
    [id \in IDs |-> IF Referenced(id, resps, loop, callers) THEN ch[id] ELSE << >>]

\* the call of caller c returns with outcome o
Return(c, o) == cl' = [cl EXCEPT ![c].pc = "returned", ![c].out = o]

\* the callers about to allocate an id
Starting == {c \in Callers : cl[c].pc = "alloc"}

\* ---------------------------------------------------------------- callers

\* a caller goroutine calls Initialize (method "initialize") or a typed
\* request (transport_client.go:51, :212), which begin with SendRequest:
\* stdio_transport.go:108-111
SendRequestCheck(c, m) ==
    /\ cl[c].pc = "idle"
    /\ IF NotInitializedRejects(initialized, m)
       THEN cl' = [cl EXCEPT ![c] = [Idle EXCEPT !.pc = "returned", !.method = m,
                                                !.out = Failure("notInitialized")]]
       ELSE /\ requestID + Cardinality(Starting) < MaxRequests
            /\ cl' = [cl EXCEPT ![c] = [Idle EXCEPT !.pc = "alloc", !.method = m]]
    /\ UNCHANGED <<transportVars, stdin, stdout, child, rl, closer, handlerVars>>

\* stdio_transport.go:113
SendRequestAlloc(c) ==
    /\ cl[c].pc = "alloc"
    /\ requestID' = NextRequestID(requestID)
    /\ cl' = [cl EXCEPT ![c].pc = "insert", ![c].id = requestID']
    /\ UNCHANGED <<responses, chan, initialized, done, stdinClosed, waited, panicked,
                   notifications, stdin, stdout, child, rl, closer, handlerVars>>

\* stdio_transport.go:124-127
SendRequestInsert(c) ==
    /\ cl[c].pc = "insert"
    /\ chan' = [chan EXCEPT ![cl[c].id] = << >>]
    /\ responses' = InsertEntry(responses, cl[c].id, cl[c].id)
    /\ cl' = [cl EXCEPT ![c].pc = "write"]
    /\ UNCHANGED <<requestID, initialized, done, stdinClosed, waited, panicked,
                   notifications, stdin, stdout, child, rl, closer, handlerVars>>

\* the params of a tools/call request may hold a value json.Marshal rejects;
\* the params of initialize and ping cannot
MayFailMarshal(method) == method = "tools/call"

\* a write to the child's input fails once Close closed it or the child is gone
WriteFails == stdinClosed \/ child.state = "exited"

\* the child can answer: it still writes, and the read loop still reads
Answering(ch, loop) == ch.state = "running" /\ loop.pc # "exited"

\* the frame reaches the child's input; the child keeps the requests it may
\* still answer
ChildGets(frame) ==
    /\ stdin' = Written(stdin, frame)
    /\ child' = IF frame.type = "req" /\ Answering(child, rl)
                THEN [child EXCEPT !.inbox = @ \cup {frame}]
                ELSE child

\* stdio_transport.go:129-137
SendRequestWrite(c) ==
    /\ cl[c].pc = "write"
    /\ \E marshals \in BOOLEAN :
         /\ marshals \/ MayFailMarshal(cl[c].method)
         /\ IF ~marshals
            THEN Return(c, Failure("marshalError")) /\ UNCHANGED <<stdin, child>>
            ELSE IF WriteFails
            THEN Return(c, Failure("writeError")) /\ UNCHANGED <<stdin, child>>
            ELSE /\ ChildGets(RequestFrame(cl[c].id, cl[c].method))
                 /\ cl' = [cl EXCEPT ![c].pc = "await", ![c].wrote = TRUE]
    /\ UNCHANGED <<transportVars, stdout, rl, closer, handlerVars>>

\* stdio_transport.go:140-144, the caller's context is cancelled
SendRequestCancel(c) ==
    /\ cl[c].pc = "await"
    /\ responses' = DeleteEntry(responses, cl[c].id)
    /\ Return(c, Failure("cancelled"))
    /\ chan' = Collect(chan, responses', rl, cl')
    /\ UNCHANGED <<requestID, initialized, done, stdinClosed, waited, panicked,
                   notifications, stdin, stdout, child, rl, closer, handlerVars>>

\* stdio_transport.go:145-149; for Initialize, transport_client.go:52-62 follow:
\* the result of the child may not decode as an InitializeResult
SendRequestReceive(c) ==
    /\ cl[c].pc = "await"
    /\ chan[cl[c].id] # << >>
    /\ LET o == OutcomeOf(Head(chan[cl[c].id])) IN
         IF cl[c].method = "initialize" /\ o.kind = "result"
         THEN \E decodes \in BOOLEAN :
                IF decodes
                THEN cl' = [cl EXCEPT ![c].pc = "notify", ![c].out = o]
                ELSE Return(c, Failure("decodeError"))
         ELSE Return(c, o)
    /\ chan' = Collect([chan EXCEPT ![cl[c].id] = Tail(@)], responses, rl, cl')
    /\ UNCHANGED <<requestID, responses, initialized, done, stdinClosed, waited, panicked,
                   notifications, stdin, stdout, child, rl, closer, handlerVars>>

\* transport_client.go:65-67 with stdio_transport.go:154-178
InitializeNotify(c) ==
    /\ cl[c].pc = "notify"
    /\ IF WriteFails
       THEN Return(c, Failure("notifyError")) /\ UNCHANGED <<stdin, child>>
       ELSE /\ ChildGets(NotificationFrame("notifications/initialized"))
            /\ cl' = [cl EXCEPT ![c].pc = "setinit"]
    /\ UNCHANGED <<transportVars, stdout, rl, closer, handlerVars>>

\* transport_client.go:69-70 with stdio_transport.go:202-204
InitializeSetInitialized(c) ==
    /\ cl[c].pc = "setinit"
    /\ initialized' = TRUE
    /\ cl' = [cl EXCEPT ![c].pc = "returned"]
    /\ UNCHANGED <<requestID, responses, chan, done, stdinClosed, waited, panicked,
                   notifications, stdin, stdout, child, rl, closer, handlerVars>>

\* SendNotification returned nil
Sent == [kind |-> "sent", message |-> Nil, result |-> NoResult]

\* the callers inside a direct call of SendNotification
Notifying == {c \in Callers : cl[c].pc \in {"nwrite", "nwriting"}}

\* stdio_transport.go:154-171, a caller calls SendNotification itself; the
\* method tests nothing before it builds and marshals its frame
SendNotificationMarshal(c, m) ==
    /\ cl[c].pc = "idle"
    /\ stdin.notes + Cardinality(Notifying) < MaxSent
    /\ cl' = [cl EXCEPT ![c] = [Idle EXCEPT !.pc = "nwrite", !.method = m]]
    /\ UNCHANGED <<transportVars, stdin, stdout, child, rl, closer, handlerVars>>

\* the frame the call of caller c writes
FrameOf(c) ==
    IF cl[c].pc \in {"write", "writing"}
    THEN RequestFrame(cl[c].id, cl[c].method)
    ELSE NotificationFrame(cl[c].method)

\* t.stdin is the *os.File of cmd.StdinPipe: its Write holds the write lock of
\* the descriptor from its first system call to its last
WriteLockIgnored(lock) == TRUE
WriteLockFree(lock) == lock = Nil

\* stdio_transport.go:135 and :173, Write begins: the lock is taken and the
\* first part of the frame reaches the pipe
WriteBegin(c) ==
    /\ cl[c].pc \in {"write", "nwrite"}
    /\ WriteLockFree(stdin.lock)
    /\ stdin' = [stdin EXCEPT !.lock = c, !.wire = Append(@, Chunk(c, FrameOf(c), 1))]
    /\ cl' = [cl EXCEPT ![c].pc = IF @ = "write" THEN "writing" ELSE "nwriting"]
    /\ UNCHANGED <<transportVars, stdout, child, rl, closer, handlerVars>>

\* stdio_transport.go:135-139 and :173-177, Write ends: the rest of the frame
\* reaches the pipe and the lock is released; SendRequest goes on to its
\* select, SendNotification returns nil
WriteEnd(c) ==
    /\ cl[c].pc \in {"writing", "nwriting"}
    /\ stdin' = [Written(stdin, FrameOf(c)) EXCEPT
                    !.lock = IF @ = c THEN Nil ELSE @,
                    !.wire = Append(@, Chunk(c, FrameOf(c), 2))]
    /\ cl' = IF cl[c].pc = "writing"
             THEN [cl EXCEPT ![c].pc = "await", ![c].wrote = TRUE]
             ELSE [cl EXCEPT ![c].pc = "returned", ![c].out = Sent, ![c].wrote = TRUE]
    /\ UNCHANGED <<transportVars, stdout, child, rl, closer, handlerVars>>

\* stdio_transport.go:202-204, any user of the transport stores the flag
SetInitialized(b) ==
    /\ initialized' = b
    /\ UNCHANGED <<requestID, responses, chan, done, stdinClosed, waited, panicked,
                   notifications, stdin, stdout, child, rl, cl, closer, handlerVars>>

\* the caller has its outcome and goes on
CallReturn(c) ==
    /\ cl[c].pc = "returned"
    /\ cl' = [cl EXCEPT ![c] = Idle]
    /\ UNCHANGED <<transportVars, stdin, stdout, child, rl, closer, handlerVars>>

\* stdio_transport.go:181-185
OnNotification ==
    /\ Len(notifications) < MaxObservers
    /\ notifications' = Append(notifications, Len(notifications) + 1)
    /\ UNCHANGED <<requestID, responses, chan, initialized, done, stdinClosed, waited,
                   panicked, stdin, stdout, child, rl, cl, closer, handlerVars>>

\* -------------------------------------------------------------- read loop

\* stdio_transport.go:216, the one diagnostic the read loop prints
ReadError == "Error reading response"

\* readResponses returns, having printed the diagnostics of printed; the lines
\* it has not read are never read, and nothing the child would still answer is
Exit(printed) ==
    /\ rl' = [rl EXCEPT !.pc = "exited", !.diag = @ \cup printed]
    /\ stdout' = << >>
    /\ child' = [child EXCEPT !.inbox = {}]

\* stdio_transport.go:209-212, the select on t.done with a default branch
ReadLoopSelect ==
    /\ rl.pc = "select"
    /\ IF done THEN Exit({}) ELSE rl' = [rl EXCEPT !.pc = "read"] /\ UNCHANGED <<stdout, child>>
    /\ UNCHANGED <<transportVars, stdin, cl, closer, handlerVars>>

\* stdio_transport.go:213, ReadString returns the next line
ReadLoopReadLine ==
    /\ rl.pc = "read"
    /\ stdout # << >>
    /\ rl' = [rl EXCEPT !.pc = "handle", !.line = Head(stdout)]
    /\ stdout' = Tail(stdout)
    /\ UNCHANGED <<transportVars, stdin, child, cl, closer, handlerVars>>

\* stdio_transport.go:214-219, ReadString fails: end of stream once the child
\* closed its output and all of it is read, or a read error, which is printed,
\* once cmd.Wait closed the pipe under the loop
ReadLoopReadFails ==
    /\ rl.pc = "read"
    /\ \/ stdout = << >> /\ child.state # "running" /\ Exit({})
       \/ waited /\ Exit({ReadError})
    /\ UNCHANGED <<transportVars, stdin, cl, closer, handlerVars>>

\* the handler goroutines started for the line n: "go handler(notification)"
\* for each handler of hs
Spawn(sp, hs, k) ==
    [p \in DOMAIN sp |->
        sp[p] + Cardinality({i \in 1..Len(hs) : <<hs[i], k>> = p})]

\* stdio_transport.go:232-252: a line that does not parse is skipped, a line
\* without id goes to the handlers, a line with id is looked up
ReadLoopHandle ==
    /\ rl.pc = "handle"
    /\ IF ~Parses(rl.line)
       THEN /\ rl' = [rl EXCEPT !.pc = "select", !.line = NoLine]
            /\ UNCHANGED handlerVars
       ELSE IF IsNotification(rl.line)
       THEN /\ spawned' = Spawn(spawned, HandlersToInvoke(notifications), rl.line.seq)
            /\ dispatchedAt' = [dispatchedAt EXCEPT ![rl.line.seq] = Len(notifications)]
            /\ rl' = [rl EXCEPT !.pc = "select", !.line = NoLine]
            /\ UNCHANGED invoked
       ELSE /\ LET ch == LookupChannel(responses, rl.line.id) IN
                 rl' = IF ch # NoChan
                       THEN [rl EXCEPT !.pc = "send", !.ch = ch]
                       ELSE [rl EXCEPT !.pc = "select", !.line = NoLine]
            /\ UNCHANGED handlerVars
    /\ UNCHANGED <<transportVars, stdin, stdout, child, cl, closer>>

\* stdio_transport.go:254-263, the send on the channel found (it blocks while
\* the buffer of capacity 1 is full)
ReadLoopSend ==
    /\ rl.pc = "send"
    /\ Len(chan[rl.ch]) < ChanCap
    /\ chan' = [chan EXCEPT ![rl.ch] = Append(@, MakeResponse(rl.line))]
    /\ rl' = [rl EXCEPT !.pc = "delete"]
    /\ UNCHANGED <<requestID, responses, initialized, done, stdinClosed, waited, panicked,
                   notifications, stdin, stdout, child, cl, closer, handlerVars>>

\* stdio_transport.go:264-266
ReadLoopDelete ==
    /\ rl.pc = "delete"
    /\ responses' = DeleteEntry(responses, rl.line.id)
    /\ rl' = [rl EXCEPT !.pc = "select", !.line = NoLine, !.ch = NoChan]
    /\ chan' = Collect(chan, responses', rl', cl)
    /\ UNCHANGED <<requestID, initialized, done, stdinClosed, waited, panicked,
                   notifications, stdin, stdout, child, cl, closer, handlerVars>>

\* a handler goroutine started at stdio_transport.go:244 begins to run
HandlerRun(h, k) ==
    /\ spawned[<<h, k>>] > 0
    /\ spawned' = [spawned EXCEPT ![<<h, k>>] = @ - 1]
    /\ invoked' = [invoked EXCEPT ![h] = Append(@, k)]
    /\ UNCHANGED <<transportVars, stdin, stdout, child, rl, cl, closer, dispatchedAt>>

\* a handler goroutine started at stdio_transport.go:244 begins to run and
\* panics: nothing recovers a panic of that goroutine, and it ends the process
HandlerPanics(h, k) ==
    /\ spawned[<<h, k>>] > 0
    /\ spawned' = [spawned EXCEPT ![<<h, k>>] = @ - 1]
    /\ invoked' = [invoked EXCEPT ![h] = Append(@, k)]
    /\ panicked' = TRUE
    /\ UNCHANGED <<requestID, responses, chan, initialized, done, stdinClosed, waited,
                   notifications, stdin, stdout, child, rl, cl, closer, dispatchedAt>>

\* ------------------------------------------------------------------ Close

\* stdio_transport.go:188-189, Close begins with close(t.done): closing a closed
\* channel panics
CloseDone ==
    /\ closer.pc = "idle"
    /\ closer.calls < MaxCloses
    /\ IF done
       THEN panicked' = TRUE /\ closer' = [closer EXCEPT !.calls = @ + 1]
            /\ UNCHANGED done
       ELSE done' = TRUE /\ closer' = [closer EXCEPT !.pc = "closeStdin", !.calls = @ + 1]
            /\ UNCHANGED panicked
    /\ UNCHANGED <<requestID, responses, chan, initialized, stdinClosed, waited,
                   notifications, stdin, stdout, child, rl, cl, handlerVars>>

\* stdio_transport.go:190-192
CloseStdin ==
    /\ closer.pc = "closeStdin"
    /\ IF stdinClosed
       THEN closer' = [closer EXCEPT !.pc = "idle",
                                     !.status = Append(@, "closeStdinError")]
            /\ UNCHANGED stdinClosed
       ELSE stdinClosed' = TRUE /\ closer' = [closer EXCEPT !.pc = "wait"]
    /\ UNCHANGED <<requestID, responses, chan, initialized, done, waited, panicked,
                   notifications, stdin, stdout, child, rl, cl, handlerVars>>

\* stdio_transport.go:193, cmd.Wait returns once the child has exited
CloseWait ==
    /\ closer.pc = "wait"
    /\ child.state = "exited"
    /\ waited' = TRUE
    /\ closer' = [closer EXCEPT !.pc = "idle",
                    !.status = Append(@, IF waited THEN "waitError" ELSE "exitStatus")]
    /\ UNCHANGED <<requestID, responses, chan, initialized, done, stdinClosed, panicked,
                   notifications, stdin, stdout, child, rl, cl, handlerVars>>

\* -------------------------------------------------------------- the child

\* the child can write a line (what it writes after the read loop has
\* returned is never read, and is left out)
ChildCanWrite == Answering(child, rl)

\* the child answers a request it has read, with a result or with an error
ChildReply(req, fails) ==
    /\ ChildCanWrite
    /\ req \in child.inbox
    /\ stdout' = Append(stdout,
                   IF fails THEN ResponseLine("2.0", req.id, NoResult, ServerError)
                            ELSE ResponseLine("2.0", req.id, ServerResult(req), NoError))
    /\ child' = [child EXCEPT !.inbox = @ \ {req}]
    /\ UNCHANGED <<transportVars, stdin, rl, cl, closer, handlerVars>>

\* the child sends a notification
ChildNotify ==
    /\ ChildCanWrite
    /\ child.notifs < MaxNotifs
    /\ stdout' = Append(stdout, NotificationLine("2.0", child.notifs + 1))
    /\ child' = [child EXCEPT !.notifs = @ + 1]
    /\ UNCHANGED <<transportVars, stdin, rl, cl, closer, handlerVars>>

\* the child misbehaves: it writes a response no request of its inbox asks for
\* (a second answer, or an id it made up)
ChildUnsolicited(id) ==
    /\ ChildCanWrite
    /\ child.junk < MaxJunk
    /\ \A req \in child.inbox : req.id # id
    /\ stdout' = Append(stdout, ResponseLine("2.0", id, Unsolicited(id), NoError))
    /\ child' = [child EXCEPT !.junk = @ + 1]
    /\ UNCHANGED <<transportVars, stdin, rl, cl, closer, handlerVars>>

\* the child misbehaves: it writes a line that is not JSON
ChildGarbage ==
    /\ ChildCanWrite
    /\ child.junk < MaxJunk
    /\ stdout' = Append(stdout, GarbageLine)
    /\ child' = [child EXCEPT !.junk = @ + 1]
    /\ UNCHANGED <<transportVars, stdin, rl, cl, closer, handlerVars>>

\* the child misbehaves: it answers with a frame whose jsonrpc field is not "2.0"
ChildWrongVersionReply(req) ==
    /\ ChildCanWrite
    /\ child.junk < MaxJunk
    /\ req \in child.inbox
    /\ stdout' = Append(stdout, ResponseLine("1.0", req.id, ServerResult(req), NoError))
    /\ child' = [child EXCEPT !.junk = @ + 1, !.inbox = @ \ {req}]
    /\ UNCHANGED <<transportVars, stdin, rl, cl, closer, handlerVars>>

\* the child misbehaves: it sends a notification whose jsonrpc field is not "2.0"
ChildWrongVersionNotify ==
    /\ ChildCanWrite
    /\ child.junk < MaxJunk
    /\ child.notifs < MaxNotifs
    /\ stdout' = Append(stdout, NotificationLine("1.0", child.notifs + 1))
    /\ child' = [child EXCEPT !.junk = @ + 1, !.notifs = @ + 1]
    /\ UNCHANGED <<transportVars, stdin, rl, cl, closer, handlerVars>>

\* the child closes its output and keeps reading its input
ChildCloseStdout ==
    /\ child.state = "running"
    /\ child' = [child EXCEPT !.state = "outClosed", !.inbox = {}]
    /\ UNCHANGED <<transportVars, stdin, stdout, rl, cl, closer, handlerVars>>

\* the child exits
ChildExit ==
    /\ child.state # "exited"
    /\ child' = [child EXCEPT !.state = "exited", !.inbox = {}]
    /\ UNCHANGED <<transportVars, stdin, stdout, rl, cl, closer, handlerVars>>

\* --------------------------------------------------------- specifications

\* a call that has returned hands its outcome to its caller before anything
\* else happens (the step touches nothing shared, so nothing is lost)
Returned == {c \in Callers : cl[c].pc = "returned"}

\* the request path: callers, the read loop, a child that answers, Close
Next ==
    /\ ~panicked
    /\ Returned = {}
    /\ \/ \E c \in Callers, m \in Methods : SendRequestCheck(c, m)
       \/ \E c \in Callers : SendRequestAlloc(c)
       \/ \E c \in Callers : SendRequestInsert(c)
       \/ \E c \in Callers : SendRequestWrite(c)
       \/ \E c \in Callers : SendRequestCancel(c)
       \/ \E c \in Callers : SendRequestReceive(c)
       \/ \E c \in Callers : InitializeNotify(c)
       \/ \E c \in Callers : InitializeSetInitialized(c)
       \/ ReadLoopSelect
       \/ ReadLoopReadLine
       \/ ReadLoopReadFails
       \/ ReadLoopHandle
       \/ ReadLoopSend
       \/ ReadLoopDelete
       \/ CloseDone
       \/ CloseStdin
       \/ CloseWait
       \/ \E req \in child.inbox, fails \in BOOLEAN : ChildReply(req, fails)
       \/ ChildCloseStdout
       \/ ChildExit

Spec == Init /\ [][Next \/ \E c \in Callers : CallReturn(c)]_vars

\* the notification path: handlers are registered while the child sends
\* notifications, well-formed or not, and the transport is closed
NextNotifications ==
    /\ ~panicked
    /\ \/ OnNotification
       \/ ReadLoopSelect
       \/ ReadLoopReadLine
       \/ ReadLoopReadFails
       \/ ReadLoopHandle
       \/ \E h \in 1..MaxObservers, k \in 1..MaxNotifs : HandlerRun(h, k)
       \/ \E h \in 1..MaxObservers, k \in 1..MaxNotifs : HandlerPanics(h, k)
       \/ CloseDone
       \/ CloseStdin
       \/ CloseWait
       \/ ChildNotify
       \/ ChildGarbage
       \/ ChildWrongVersionNotify
       \/ ChildCloseStdout
       \/ ChildExit

SpecNotifications == Init /\ [][NextNotifications]_vars

\* the frame path: callers and the read loop with a child that answers and
\* misbehaves (lines that are not JSON, responses nobody awaits, frames of
\* another protocol version); the transport stays open
NextFrames ==
    /\ Returned = {}
    /\ \/ \E c \in Callers, m \in Methods : SendRequestCheck(c, m)
       \/ \E c \in Callers : SendRequestAlloc(c)
       \/ \E c \in Callers : SendRequestInsert(c)
       \/ \E c \in Callers : SendRequestWrite(c)
       \/ \E c \in Callers : SendRequestCancel(c)
       \/ \E c \in Callers : SendRequestReceive(c)
       \/ \E c \in Callers : InitializeNotify(c)
       \/ \E c \in Callers : InitializeSetInitialized(c)
       \/ ReadLoopSelect
       \/ ReadLoopReadLine
       \/ ReadLoopHandle
       \/ ReadLoopSend
       \/ ReadLoopDelete
       \/ \E req \in child.inbox, fails \in BOOLEAN : ChildReply(req, fails)
       \/ \E id \in IDs : ChildUnsolicited(id)
       \/ ChildGarbage
       \/ \E req \in child.inbox : ChildWrongVersionReply(req)

\* the write path: concurrent SendRequest and SendNotification calls, with the
\* inside of each Write; the child reads and stays silent
NextWrites ==
    /\ Returned = {}
    /\ \/ \E c \in Callers, m \in Methods : SendRequestCheck(c, m)
       \/ \E c \in Callers : SendRequestAlloc(c)
       \/ \E c \in Callers : SendRequestInsert(c)
       \/ \E c \in Callers : SendRequestCancel(c)
       \/ \E c \in Callers, m \in NotifyMethods : SendNotificationMarshal(c, m)
       \/ \E c \in Callers : WriteBegin(c)
       \/ \E c \in Callers : WriteEnd(c)

SpecWrites == Init /\ [][NextWrites \/ \E c \in Callers : CallReturn(c)]_vars

\* the state path: callers, Close and users of SetInitialized with a child
\* that reads, never answers and may exit
NextState ==
    /\ ~panicked
    /\ Returned = {}
    /\ \/ \E c \in Callers, m \in Methods : SendRequestCheck(c, m)
       \/ \E c \in Callers : SendRequestAlloc(c)
       \/ \E c \in Callers : SendRequestInsert(c)
       \/ \E c \in Callers : SendRequestWrite(c)
       \/ \E c \in Callers : SendRequestCancel(c)
       \/ \E b \in BOOLEAN : SetInitialized(b)
       \/ ReadLoopSelect
       \/ ReadLoopReadFails
       \/ CloseDone
       \/ CloseStdin
       \/ CloseWait
       \/ ChildExit

SpecState == Init /\ [][NextState \/ \E c \in Callers : CallReturn(c)]_vars

SpecFrames == Init /\ [][NextFrames \/ \E c \in Callers : CallReturn(c)]_vars

\* ----------------------------------------------------------------- claims

\* the callers blocked in the select of SendRequest with nothing to receive
Blocked == {c \in Callers : cl[c].pc = "await" /\ chan[cl[c].id] = << >>}

\* Close has returned to its caller
CloseReturned == closer.status # << >>

\* C1: once the read loop has ended or Close has returned, no caller is left
\* blocked in SendRequest: every caller that waits has an outcome to receive.
C1_NoCallerLeftWaiting == (rl.pc = "exited" \/ CloseReturned) => Blocked = {}

\* the outcomes that hand a result to the caller
HoldsResult(c) ==
    cl[c].pc \in {"returned", "notify", "setinit"} /\ cl[c].out.kind = "result"

\* C2: the result a caller receives is the result of the response frame that
\* carries the id allocated to that caller, which answers the caller's method;
\* no caller receives the result of another caller's request.
C2_OwnResult ==
    \A c \in Callers :
        HoldsResult(c) =>
            /\ cl[c].out.result.id = cl[c].id
            /\ cl[c].out.result.method = cl[c].method
            /\ \A d \in Callers \ {c} : cl[d].id # 0 => cl[c].out.result.id # cl[d].id

\* two requests are in flight and the one allocated later is answered first
C2_Witness ==
    \E c, d \in Callers :
        /\ cl[c].pc = "returned" /\ cl[c].out.kind = "result"
        /\ cl[d].pc = "await" /\ cl[d].id # 0 /\ cl[d].id < cl[c].id

\* the ids the calls in progress hold are pairwise distinct and were allocated
AllocatedIDs ==
    /\ \A c \in Callers : cl[c].id <= requestID
    /\ \A c, d \in Callers : (c # d /\ cl[c].id # 0) => cl[c].id # cl[d].id
    /\ DOMAIN responses \subseteq 1..requestID

\* C3: request ids start at 1 and every allocation hands out the successor of
\* the id handed out before it, so ids are strictly increasing and distinct;
\* every key of the pending map is an allocated id, at most the counter.
C3_RequestIDs ==
    /\ requestID = 0
    /\ [][/\ AllocatedIDs'
          /\ requestID' >= requestID
          /\ \A c \in Callers :
               (cl'[c].id # cl[c].id /\ cl'[c].id # 0) =>
                   cl'[c].id = requestID + 1 /\ requestID' = requestID + 1]_vars

\* two calls hold the ids 2 and 3 and both are keys of the pending map
C3_Witness ==
    \E c, d \in Callers :
        cl[c].id = 2 /\ cl[d].id = 3 /\ {2, 3} \subseteq DOMAIN responses

\* C4: a SendRequest with a method other than "initialize" that begins while
\* the transport is not initialized returns the not-initialized error, and
\* allocates no id, inserts no entry and writes nothing to the child.
C4_RejectedBeforeInitialize ==
    [][\A c \in Callers :
          (cl[c].pc = "idle" /\ cl'[c].pc # "idle" /\ ~initialized
             /\ cl'[c].method # "initialize") =>
              /\ cl'[c].pc = "returned"
              /\ cl'[c].out.kind = "notInitialized"
              /\ cl'[c].id = 0 /\ ~cl'[c].wrote
              /\ UNCHANGED <<requestID, responses, stdin, child>>]_vars

\* a tools/call request was rejected on a transport that is not initialized
C4_Witness ==
    \E c \in Callers :
        /\ cl[c].pc = "returned" /\ cl[c].method = "tools/call"
        /\ cl[c].out.kind = "notInitialized" /\ ~initialized

\* C5: the first request frame written to the child is "initialize"; the
\* notification notifications/initialized is written once, by a caller that
\* holds the initialize reply; no other request is written before it; the
\* transport is initialized only after it was written.
C5_Handshake ==
    /\ stdin.first \in {Nil, "initialize"}
    /\ ~stdin.early
    /\ stdin.notes <= 1
    /\ initialized => stdin.notes >= 1
    /\ \A c \in Callers : cl[c].pc \in {"notify", "setinit"} =>
           cl[c].out.kind = "result" /\ cl[c].out.result.method = "initialize"

\* C6: a SendRequest whose context is cancelled returns the cancellation error
\* with its id removed from the pending map and the initialized flag as it was;
\* a reply whose id has no pending entry is dropped by the read loop: no
\* channel, no caller, no map entry and no flag changes and the loop reads on.
C6_CancelThenLateReply ==
    [][/\ \A c \in Callers :
            (cl[c].pc = "await" /\ cl'[c].pc = "returned"
               /\ cl'[c].out.kind = "cancelled") =>
                /\ cl[c].id \notin DOMAIN responses'
                /\ \A k \in DOMAIN responses : k # cl[c].id => k \in DOMAIN responses'
                /\ initialized' = initialized
       /\ (rl.pc = "handle" /\ rl.line.kind = "json" /\ rl.line.id # 0
              /\ rl.line.id \notin DOMAIN responses /\ rl' # rl) =>
                /\ rl'.pc = "select"
                /\ UNCHANGED <<chan, cl, responses, initialized>>]_vars

\* the read loop holds the late reply of a cancelled request, whose id is no
\* longer pending, while the transport is initialized and the reply of a
\* later request, whose caller waits, is the next line
C6_Witness ==
    /\ initialized
    /\ rl.pc = "handle" /\ rl.line.id # 0 /\ rl.line.id \notin DOMAIN responses
    /\ stdout # << >>
    /\ \E c \in Callers :
         /\ cl[c].pc = "await" /\ cl[c].id = Head(stdout).id
         /\ cl[c].id > rl.line.id /\ cl[c].id \in DOMAIN responses

\* C7: when ReadString fails (end of stream or read error) the read loop
\* leaves no entry in the pending map and the transport is no longer
\* initialized when the loop has returned.
C7_ReadLoopAbortsAll ==
    [][(rl.pc = "read" /\ rl'.pc = "exited") =>
          (DOMAIN responses' = {} /\ Blocked' = {} /\ ~initialized')]_vars

\* C8: a SendRequest that begins after the session has ended (Close was
\* called or the read loop has returned) fails at once, whatever its method:
\* it allocates no id, inserts no entry and attempts no write.
C8_RejectedAfterEnd ==
    [][\A c \in Callers :
          (cl[c].pc = "idle" /\ cl'[c].pc # "idle" /\ SessionEnded) =>
              /\ cl'[c].pc = "returned"
              /\ cl'[c].out.kind \notin {"none", "result"}
              /\ cl'[c].id = 0 /\ ~cl'[c].wrote]_vars

\* C9: a second call of Close does not crash and returns the status the first
\* call returned.
C9_CloseIdempotent ==
    /\ ~panicked
    /\ Len(closer.status) >= 2 => closer.status[2] = closer.status[1]

\* the number of times handler h was started for the notification k
Invocations(h, k) ==
    spawned[<<h, k>>] + Cardinality({i \in 1..Len(invoked[h]) : invoked[h][i] = k})

\* C10: a handler registered before the read loop dispatched a notification is
\* started exactly once for it; a handler registered after the dispatch, or
\* not registered, is never started for it; nothing is started for a
\* notification that was not dispatched.
C10_InvokedOncePerNotification ==
    \A k \in 1..MaxNotifs, h \in 1..MaxObservers :
        Invocations(h, k) =
            IF dispatchedAt[k] >= 0 /\ h <= dispatchedAt[k] THEN 1 ELSE 0

\* the first handler was registered before the notification 1 was dispatched
\* and ran once for it; the second was registered afterwards and did not run
C10_Witness ==
    /\ dispatchedAt[1] = 1
    /\ Len(notifications) = 2
    /\ invoked[1] = <<1>>
    /\ invoked[2] = << >>
    /\ spawned[<<2, 1>>] = 0

\* the read loop takes a step on the line it holds
Handles == rl.pc = "handle" /\ rl' # rl

\* C11: a line that is not JSON (an empty line is one) is skipped: the read
\* loop goes back to its select with the pending map, the channels, the callers,
\* the flags and the handlers as they were; a response frame with a pending id,
\* whatever came before it, is sent on the channel of its id; the loop ends
\* only at its select or at ReadString, never while it handles a line.
C11_ParseFailureSkipped ==
    [][/\ (Handles /\ rl.line.kind = "garbage") =>
            /\ rl'.pc = "select" /\ rl'.diag = rl.diag
            /\ UNCHANGED <<responses, chan, cl, initialized, done, handlerVars>>
       /\ (Handles /\ rl.line.kind = "json" /\ rl.line.id \in DOMAIN responses) =>
            rl'.pc = "send" /\ rl'.ch = responses[rl.line.id]
       /\ (rl.pc # "exited" /\ rl'.pc = "exited") => rl.pc \in {"select", "read"}]_vars

\* the read loop holds a line that is not JSON while a request is pending whose
\* reply is the next line of the stream
C11_Witness ==
    /\ rl.pc = "handle" /\ rl.line = GarbageLine
    /\ stdout # << >> /\ Head(stdout).kind = "json"
    /\ Head(stdout).id \in DOMAIN responses
    /\ \E c \in Callers : cl[c].pc = "await" /\ cl[c].id = Head(stdout).id

\* an Initialize call of caller c is in progress
InitializeInProgress(c) == cl[c].method = "initialize" /\ cl[c].pc # "idle"

\* C12: an Initialize call that begins while another Initialize is in progress,
\* or once the transport is initialized, is rejected and writes nothing; an
\* "initialize" request frame is written only when no request frame was
\* written before, so at most one is written.
C12_InitializeOnlyOnce ==
    [][\A c \in Callers :
          /\ (/\ cl[c].pc = "idle" /\ cl'[c].pc # "idle" /\ cl'[c].method = "initialize"
              /\ (initialized \/ \E d \in Callers \ {c} : InitializeInProgress(d))) =>
                 /\ cl'[c].pc = "returned"
                 /\ cl'[c].out.kind \notin {"none", "result"}
                 /\ ~cl'[c].wrote
          /\ (cl[c].pc = "write" /\ cl'[c].pc = "await" /\ cl[c].method = "initialize") =>
                 stdin.first = Nil]_vars

\* the step with which the Initialize call of caller c returns an error
InitializeFails(c) ==
    /\ cl[c].method = "initialize" /\ cl[c].pc # "returned"
    /\ cl'[c].pc = "returned" /\ cl'[c].out.kind # "result"

\* C13: when a step of Initialize fails (the request returns an error or is
\* cancelled, the reply does not decode, the notification cannot be written)
\* the session is ended when the call returns, and the transport is not
\* initialized; a call that begins while the session is ended and the
\* transport is not initialized is rejected.
C13_InitializeFailureCloses ==
    [][\A c \in Callers :
          /\ InitializeFails(c) => SessionEnded' /\ ~initialized'
          /\ (cl[c].pc = "idle" /\ cl'[c].pc # "idle" /\ SessionEnded /\ ~initialized) =>
                 cl'[c].pc = "returned" /\ cl'[c].out.kind \notin {"none", "result"}]_vars

\* the stream is a sequence of whole frames, the last of which may still be
\* in the hands of the goroutine that holds the write lock
WholeFrames(w) ==
    /\ \A i \in 1..Len(w) :
          IF i % 2 = 1
          THEN w[i].part = 1
          ELSE w[i] = [w[i - 1] EXCEPT !.part = 2]
    /\ Len(w) % 2 = 1 =>
          stdin.lock = w[Len(w)].by /\ cl[w[Len(w)].by].pc \in {"writing", "nwriting"}

ObservedError(o) == [code |-> NoError.code, message |-> o.message]

\* C15: a caller whose request the child answered with a result returns that
\* result; a caller whose request the child answered with an error object
\* returns an error with the code and the message of that object.
C15_ErrorVerbatim ==
    \A c \in Callers :
        cl[c].pc = "returned" =>
            /\ cl[c].out.kind = "result" =>
                   cl[c].out.result = ServerResult(RequestFrame(cl[c].id, cl[c].method))
            /\ cl[c].out.kind = "error" => ObservedError(cl[c].out) = ServerError

\* the read loop holds an error response it found a channel for
RoutesError == rl.pc \in {"send", "delete"} /\ rl.line.error # NoError /\ rl' # rl

\* C16: an error response for the id X touches the caller of X alone: the
\* read loop sends it on the channel of X and on no other, and removes the
\* entry of X and no other; the caller that receives an error returns while
\* every other caller, every other entry and the initialized flag stay as
\* they were.
C16_ErrorToOwnerOnly ==
    [][/\ RoutesError =>
            /\ \A i \in IDs \ {rl.line.id} : chan'[i] = chan[i]
            /\ DOMAIN responses \ {rl.line.id} \subseteq DOMAIN responses'
            /\ \A k \in DOMAIN responses' : responses'[k] = responses[k]
            /\ UNCHANGED <<cl, initialized, done>>
       /\ \A c \in Callers :
            (cl[c].pc = "await" /\ cl'[c].pc = "returned" /\ cl'[c].out.kind = "error") =>
                /\ Head(chan[cl[c].id]).Error = cl'[c].out.message
                /\ \A d \in Callers \ {c} : cl'[d] = cl[d]
                /\ UNCHANGED <<responses, initialized, done>>]_vars

\* a caller has returned the error the child answered its request with while
\* the other caller still waits, its entry in the map, on an initialized
\* transport that is not closed
C16_Witness ==
    /\ initialized /\ ~SessionEnded
    /\ \E c, d \in Callers :
         /\ cl[c].pc = "returned" /\ cl[c].out.kind = "error"
         /\ cl[d].pc = "await" /\ cl[d].id \in DOMAIN responses /\ chan[cl[d].id] = << >>

\* the notification method m may be sent now: the transport is initialized and
\* the session has not ended, or m closes the handshake of an Initialize call
\* that is in progress
NotificationAllowed(m) ==
    \/ initialized /\ ~SessionEnded
    \/ m = "notifications/initialized" /\ \E d \in Callers : InitializeInProgress(d)

\* C17: a SendNotification call that begins while its method may not be sent
\* returns an error at once and writes nothing, and no call begins to write a
\* notification frame while its method may not be sent.
C17_NotificationGated ==
    [][\A c \in Callers :
          /\ (cl[c].pc = "idle" /\ cl'[c].pc # "idle" /\ cl'[c].method \in NotifyMethods
                 /\ ~NotificationAllowed(cl'[c].method)) =>
                 /\ cl'[c].pc = "returned"
                 /\ cl'[c].out.kind \notin {"none", "sent"}
                 /\ stdin' = stdin
          /\ (cl[c].pc = "nwrite" /\ cl'[c].pc = "nwriting") =>
                 NotificationAllowed(cl[c].method)]_vars

\* C18: when a SendRequest call that inserted a pending entry has returned,
\* whatever its outcome, its id is no longer a key of the pending map.
C18_EntryRemovedOnReturn ==
    \A c \in Callers :
        (cl[c].pc = "returned" /\ cl[c].id # 0) => cl[c].id \notin DOMAIN responses

\* C19: a pending slot is used once.  At most one response is ever in a
\* channel; when the read loop has delivered a response, the entry of its id
\* is gone before the loop looks at the next frame; and a response frame whose
\* id is no longer pending, delivered or cancelled before, is dropped: nothing
\* is sent on any channel, no caller and no map entry changes and the loop
\* reads on.
C19_SingleUse ==
    [][/\ \A i \in IDs : Len(chan'[i]) <= 1
       /\ rl'.pc \in {"select", "read", "handle"} =>
            \A k \in DOMAIN responses' : chan'[responses'[k]] = << >>
       /\ (Handles /\ rl.line.kind = "json" /\ rl.line.id # 0
              /\ rl.line.id \notin DOMAIN responses) =>
            rl'.pc = "select" /\ rl'.ch = NoChan /\ UNCHANGED <<chan, cl, responses>>]_vars

\* the read loop holds a second response frame for an id whose first response
\* it has delivered, the caller of that id returning with it
C19_Witness ==
    /\ rl.pc = "handle"
    /\ rl.line.result = Unsolicited(rl.line.id)
    /\ rl.line.id \notin DOMAIN responses
    /\ \E c \in Callers :
         /\ cl[c].pc = "returned" /\ cl[c].id = rl.line.id
         /\ cl[c].out.kind \in {"result", "error"}

\* C20: when the read loop handles a response frame whose id is not pending it
\* prints the diagnostic "unsolicited response" and reads on, and it resolves
\* no caller, starts no handler and leaves the pending map and the flags as
\* they were.
C20_UnsolicitedDiagnosed ==
    [][(Handles /\ rl.line.kind = "json" /\ rl.line.id # 0
          /\ rl.line.id \notin DOMAIN responses) =>
            /\ rl'.pc = "select"
            /\ "unsolicited response" \in rl'.diag
            /\ UNCHANGED <<chan, cl, responses, initialized, done, handlerVars>>]_vars

\* C21: a frame that is JSON and whose jsonrpc field is not "2.0" is skipped
\* with a diagnostic: the read loop goes back to its select having printed
\* something, finds no channel for it even when its id is pending, sends
\* nothing, changes no map entry and no caller, and starts no handler.
C21_WrongVersionSkipped ==
    [][(Handles /\ rl.line.kind = "json" /\ rl.line.jsonrpc # "2.0") =>
            /\ rl'.pc = "select"
            /\ rl'.diag # rl.diag
            /\ UNCHANGED <<chan, cl, responses, handlerVars>>]_vars

\* C22: every handler begins to run with the notifications in the order in
\* which their frames arrived: the numbers of the frames it ran with increase.
C22_ArrivalOrder ==
    \A h \in 1..MaxObservers :
        \A i, j \in 1..Len(invoked[h]) : i < j => invoked[h][i] < invoked[h][j]

\* C23: what becomes of a handler is its own affair: the step with which a
\* handler begins to run, whether it then returns, never returns or fails,
\* leaves the process running, the read loop where it was and the handlers
\* started for the other observers still to run.
C23_ObserverIsolated ==
    [][invoked' # invoked =>
          /\ ~panicked'
          /\ UNCHANGED <<rl, stdout, notifications, dispatchedAt>>]_vars

\* C24: once Close has returned the read loop has returned: it is not between
\* its select and the end of a line, and it handles no further line.
C24_TasksEndedAfterClose == CloseReturned => rl.pc = "exited"

\* C25: the initialized flag moves along the edges of the session only: it is
\* set by the step that ends the handshake of an Initialize call, while the
\* session has not ended, and once set it is never cleared, so requests can
\* not be rejected as uninitialized again.
C25_StateEdges ==
    [][/\ initialized => initialized'
       /\ (~initialized /\ initialized') =>
            /\ ~SessionEnded
            /\ \E c \in Callers : cl[c].pc = "setinit" /\ cl'[c].pc = "returned"]_vars

\* C26: the send of the read loop never blocks: whenever the loop is about to
\* send, the buffer of the channel it found has room, because no channel is
\* sent on twice; this is so whether the caller of that channel waits, has
\* not come to its select yet, or has returned on cancellation.
C26_SendNeverBlocks ==
    /\ rl.pc = "send" => Len(chan[rl.ch]) < ChanCap
    /\ \A i \in IDs : Len(chan[i]) <= 1

\* the read loop is about to send the reply of a request whose caller has
\* cancelled after the lookup, while the other caller waits for its own reply
C26_Witness ==
    /\ rl.pc = "send"
    /\ rl.line.id \notin DOMAIN responses
    /\ \A c \in Callers : cl[c].id # rl.line.id
    /\ \E c \in Callers : cl[c].pc = "await" /\ cl[c].id \in DOMAIN responses

\* the call of caller c has come out of its select, with the reply or with
\* the cancellation error
PastSelect(c) ==
    /\ cl[c].pc \in {"returned", "notify", "setinit"}
    /\ cl[c].out.kind \in {"result", "error", "cancelled", "decodeError", "notifyError"}

\* the read loop is between its lookup and the end of its delete for the id
LoopHolds(id) == rl.pc \in {"send", "delete"} /\ rl.line.id = id

\* C27: when the reply for an id and the cancellation of its caller race, the
\* caller comes out of its select with one of the two, and once the caller is
\* out and the read loop is done with the frame the id is no key of the
\* pending map, in every interleaving; a key leaves the map only by the
\* cancellation of its own caller or by the delete of the read loop for a
\* frame with that id, so no entry of another id is removed.
C27_ReplyCancelRace ==
    [][/\ \A c \in Callers :
            (PastSelect(c) /\ ~LoopHolds(cl[c].id))' => (cl[c].id \notin DOMAIN responses)'
       /\ \A c \in Callers :
            (cl[c].pc = "await" /\ cl'[c].pc # "await") =>
                \/ cl'[c].out = Failure("cancelled") /\ cl[c].id \notin DOMAIN responses'
                \/ /\ cl'[c].out.kind # "cancelled" /\ chan[cl[c].id] # << >>
                   /\ responses' = responses
       /\ \A k \in DOMAIN responses \ DOMAIN responses' :
            \/ rl.pc = "delete" /\ rl.line.id = k
            \/ \E c \in Callers :
                 cl[c].pc = "await" /\ cl[c].id = k /\ cl'[c].out.kind = "cancelled"]_vars

\* the caller of an id has returned the cancellation error while the read
\* loop, which found its channel before, has sent the reply and is about to
\* delete the id; the request of the other caller is pending
C27_Witness ==
    \E c, d \in Callers :
        /\ cl[c].pc = "returned" /\ cl[c].out.kind = "cancelled"
        /\ rl.pc = "delete" /\ rl.line.id = cl[c].id
        /\ cl[d].pc = "await" /\ cl[d].id \in DOMAIN responses

\* C28: a SendRequest rejected because the transport is not initialized
\* leaves the request-id counter and the pending map as they were; the counter
\* moves only when a call that passed the gate takes its id, so however many
\* calls were rejected before, the first call to take an id is "initialize"
\* and its id is 1.
C28_RejectedCallsBurnNoID ==
    [][/\ (\E c \in Callers : cl[c].pc = "idle" /\ cl'[c].out = Failure("notInitialized")) =>
            /\ requestID' = requestID
            /\ responses' = responses
       /\ requestID' # requestID =>
            \E c \in Callers :
                /\ cl[c].pc = "alloc" /\ cl'[c].pc = "insert"
                /\ requestID = 0 => cl'[c].method = "initialize" /\ cl'[c].id = 1]_vars

\* a tools/call request has just been rejected, no id was allotted so far, and
\* an initialize request that passed the gate is about to take its id
C28_Witness ==
    \E c, d \in Callers :
        /\ cl[c].pc = "returned" /\ cl[c].out = Failure("notInitialized")
        /\ requestID = 0 /\ DOMAIN responses = {}
        /\ cl[d].pc = "alloc" /\ cl[d].method = "initialize"

====
